---- MODULE Spec2Model ----
(***************************************************************************)
(* A model of the to-be library (src/src/lib.rs): classification of a      *)
(* string as "truey", "falsey" or unclassified against term tables, and    *)
(* the Truthy trait built on it.                                           *)
(*                                                                         *)
(* Strings are TLA+ strings over ASCII; a character is a string of length  *)
(* one.  Rust compares `str` values byte-wise, which for ASCII is the      *)
(* order of the character codes (CharCode below).  Option<bool> is a       *)
(* sequence of at most one boolean: None is << >>, Some(b) is <<b>>.       *)
(***************************************************************************)
EXTENDS Naturals, Sequences, FiniteSets

VARIABLES s, terms, recv, op, impl, result

vars == <<s, terms, recv, op, impl, result>>

(***************************************************************************)
(* Bounds of the model.                                                    *)
(***************************************************************************)
\* longest string of the exhaustively enumerated inputs
MaxLen == 3
\* most whitespace characters put on one side of a token
MaxPad == 1

(***************************************************************************)
(* Characters and strings (the parts of Rust's char and str the library    *)
(* uses).                                                                  *)
(***************************************************************************)
None == << >>
Some(b) == <<b>>

CharAt(str, i) == SubSeq(str, i, i)

\* the ASCII characters of codes 32 to 95, in order
PrintableLow == " !\"#$%&'()*+,-./0123456789:;<=>?@ABCDEFGHIJKLMNOPQRSTUVWXYZ[\\]^_"

\* the ASCII characters of codes 97 to 126, in order (code 96, the grave
\* accent, cannot be written in a TLA+ string and is left out)
PrintableHigh == "abcdefghijklmnopqrstuvwxyz{|}~"

ControlCodes == [c \in {"\t", "\n", "\f", "\r"} |->
                   CASE c = "\t" -> 9 [] c = "\n" -> 10 [] c = "\f" -> 12 [] c = "\r" -> 13]

PrintableCodes ==
    [c \in {CharAt(PrintableLow, i) : i \in 1..Len(PrintableLow)}
           \cup {CharAt(PrintableHigh, i) : i \in 1..Len(PrintableHigh)} |->
       IF \E i \in 1..Len(PrintableLow) : CharAt(PrintableLow, i) = c
       THEN 31 + (CHOOSE i \in 1..Len(PrintableLow) : CharAt(PrintableLow, i) = c)
       ELSE 96 + (CHOOSE i \in 1..Len(PrintableHigh) : CharAt(PrintableHigh, i) = c)]

\* the code (the UTF-8 byte) of an ASCII character
CharCode(c) == IF c \in DOMAIN ControlCodes THEN ControlCodes[c] ELSE PrintableCodes[c]

\* char::is_whitespace, on the ASCII characters a TLA+ string can hold
is_whitespace(c) == c \in {"\t", "\n", "\f", "\r", " "}

\* char::to_ascii_lowercase: A..=Z move to a..=z, all else is kept
char_to_ascii_lowercase(c) ==
    IF CharCode(c) >= 65 /\ CharCode(c) <= 90
    THEN CharAt(PrintableHigh, CharCode(c) + 32 - 96)
    ELSE c

\* a lowercasing that leaves the string as it is
to_ascii_lowercase_identity(str) == str

\* str::to_ascii_lowercase
RECURSIVE to_ascii_lowercase(_)
to_ascii_lowercase(str) ==
    IF Len(str) = 0 THEN ""
    ELSE char_to_ascii_lowercase(CharAt(str, 1)) \o to_ascii_lowercase(SubSeq(str, 2, Len(str)))

\* str::trim_start
RECURSIVE trim_start(_)
trim_start(str) ==
    IF Len(str) > 0 /\ is_whitespace(CharAt(str, 1))
    THEN trim_start(SubSeq(str, 2, Len(str)))
    ELSE str

\* str::trim_end
RECURSIVE trim_end(_)
trim_end(str) ==
    IF Len(str) > 0 /\ is_whitespace(CharAt(str, Len(str)))
    THEN trim_end(SubSeq(str, 1, Len(str) - 1))
    ELSE str

\* a trim that strips the leading whitespace only
trim_leading_only(str) == trim_start(str)

\* str::trim
trim(str) == trim_end(trim_start(str))

\* Ord for str: lexicographic comparison of the bytes
RECURSIVE str_cmp(_, _)
str_cmp(a, b) ==
    IF Len(a) = 0 /\ Len(b) = 0 THEN "Equal"
    ELSE IF Len(a) = 0 THEN "Less"
    ELSE IF Len(b) = 0 THEN "Greater"
    ELSE IF CharCode(CharAt(a, 1)) < CharCode(CharAt(b, 1)) THEN "Less"
    ELSE IF CharCode(CharAt(a, 1)) > CharCode(CharAt(b, 1)) THEN "Greater"
    ELSE str_cmp(SubSeq(a, 2, Len(a)), SubSeq(b, 2, Len(b)))

\* the loop of slice::binary_search over the 0-based half-open range
\* left..right of `strings`; TRUE when it ends in Ok
RECURSIVE binary_search_loop(_, _, _, _)
binary_search_loop(strings, x, left, right) ==
    IF left >= right THEN FALSE
    ELSE LET mid == left + ((right - left) \div 2)
             cmp == str_cmp(strings[mid + 1], x)
         IN  IF cmp = "Less" THEN binary_search_loop(strings, x, mid + 1, right)
             ELSE IF cmp = "Greater" THEN binary_search_loop(strings, x, left, mid)
             ELSE TRUE

\* strings.binary_search(&x).is_ok()
binary_search_is_ok(strings, x) == binary_search_loop(strings, x, 0, Len(strings))

\* a scan that takes a term starting with x for x
contains_prefix(strings, x) ==
    \E i \in 1..Len(strings) :
        Len(x) <= Len(strings[i]) /\ SubSeq(strings[i], 1, Len(x)) = x

\* a lookup by binary search, whatever the order of the strings
contains_by_binary_search(strings, x) == binary_search_is_ok(strings, x)

\* a scan that stops at the first term above x, as if the terms were sorted
contains_sorted_scan(strings, x) ==
    \E i \in 1..Len(strings) :
        /\ strings[i] = x
        /\ \A j \in 1..(i - 1) : str_cmp(strings[j], x) = "Less"

\* strings.contains(&x), and strings.iter().any(|&f| f == x)
contains(strings, x) == \E i \in 1..Len(strings) : strings[i] = x

(***************************************************************************)
(* mod constants                                                           *)
(***************************************************************************)
\* the falsey precise table with a term, "n", that the lowercase table lacks
FALSEY_PRECISE_STRINGS_with_n ==
    <<"0", "FALSE", "False", "NO", "No", "OFF", "Off", "false", "n", "no", "off">>

FALSEY_PRECISE_STRINGS ==
    <<"0", "FALSE", "False", "NO", "No", "OFF", "Off", "false", "no", "off">>

\* the truey precise table in most-likely order, as the lowercase tables are
TRUEY_PRECISE_STRINGS_most_likely_order ==
    <<"1", "true", "yes", "on", "True", "TRUE", "Yes", "YES", "On", "ON">>

TRUEY_PRECISE_STRINGS ==
    <<"1", "ON", "On", "TRUE", "True", "YES", "Yes", "on", "true", "yes">>

FALSEY_LOWERCASE_STRINGS == <<"false", "no", "off", "0">>

\* the truey lowercase table with "no" typed for "on"
TRUEY_LOWERCASE_STRINGS_typo == <<"true", "yes", "no", "1">>

TRUEY_LOWERCASE_STRINGS == <<"true", "yes", "on", "1">>

(***************************************************************************)
(* enum Terms                                                              *)
(***************************************************************************)
Default == [tag |-> "Default"]

Strings(fp, fl, tp, tl) ==
    [tag |-> "Strings",
     falsey_precise_strings |-> fp,
     falsey_lowercase_strings |-> fl,
     truey_precise_strings |-> tp,
     truey_lowercase_strings |-> tl]

(***************************************************************************)
(* The matching functions                                                  *)
(***************************************************************************)
string_is_truthy_against_(str, sorted_precise_strings, lowercase_strings) ==
    LET t == trim(str)
    IN  IF binary_search_is_ok(sorted_precise_strings, t)
        THEN TRUE
        ELSE LET l == to_ascii_lowercase(t)
             IN  contains(lowercase_strings, l)

\* the classification with the caller's lowercase sets ignored: the
\* lowercase tier always reads the stock tables
string_is_truthy_with_stock_lowercase_(str, trms, stock_falsey_sorted_precise_strings, stock_falsey_lowercase_strings, stock_truey_sorted_precise_strings, stock_truey_lowercase_strings) ==
    LET t == trim(str)
        precise ==
            IF trms.tag = "Default"
            THEN IF binary_search_is_ok(stock_falsey_sorted_precise_strings, t)
                 THEN Some(FALSE)
                 ELSE IF binary_search_is_ok(stock_truey_sorted_precise_strings, t)
                 THEN Some(TRUE)
                 ELSE None
            ELSE IF contains(trms.falsey_precise_strings, t)
                 THEN Some(FALSE)
                 ELSE IF contains(trms.truey_precise_strings, t)
                 THEN Some(TRUE)
                 ELSE None
        l == to_ascii_lowercase(t)
    IN  IF precise # None THEN precise
        ELSE IF contains(stock_falsey_lowercase_strings, l) THEN Some(FALSE)
        ELSE IF contains(stock_truey_lowercase_strings, l) THEN Some(TRUE)
        ELSE None

\* the classification with the truey set of each tier looked up before the
\* falsey set
string_is_truthy_with_truey_first_(str, trms, stock_falsey_sorted_precise_strings, stock_falsey_lowercase_strings, stock_truey_sorted_precise_strings, stock_truey_lowercase_strings) ==
    LET t == trim(str)
        precise ==
            IF trms.tag = "Default"
            THEN IF binary_search_is_ok(stock_truey_sorted_precise_strings, t)
                 THEN Some(TRUE)
                 ELSE IF binary_search_is_ok(stock_falsey_sorted_precise_strings, t)
                 THEN Some(FALSE)
                 ELSE None
            ELSE IF contains(trms.truey_precise_strings, t)
                 THEN Some(TRUE)
                 ELSE IF contains(trms.falsey_precise_strings, t)
                 THEN Some(FALSE)
                 ELSE None
        l == to_ascii_lowercase(t)
        falsey_lowercase_strings ==
            IF trms.tag = "Default" THEN stock_falsey_lowercase_strings
            ELSE trms.falsey_lowercase_strings
        truey_lowercase_strings ==
            IF trms.tag = "Default" THEN stock_truey_lowercase_strings
            ELSE trms.truey_lowercase_strings
    IN  IF precise # None THEN precise
        ELSE IF contains(truey_lowercase_strings, l) THEN Some(TRUE)
        ELSE IF contains(falsey_lowercase_strings, l) THEN Some(FALSE)
        ELSE None

string_is_truthy_with_(str, trms, stock_falsey_sorted_precise_strings, stock_falsey_lowercase_strings, stock_truey_sorted_precise_strings, stock_truey_lowercase_strings) ==
    LET t == trim(str)
        precise ==
            IF trms.tag = "Default"
            THEN IF binary_search_is_ok(stock_falsey_sorted_precise_strings, t)
                 THEN Some(FALSE)
                 ELSE IF binary_search_is_ok(stock_truey_sorted_precise_strings, t)
                 THEN Some(TRUE)
                 ELSE None
            ELSE IF contains(trms.falsey_precise_strings, t)
                 THEN Some(FALSE)
                 ELSE IF contains(trms.truey_precise_strings, t)
                 THEN Some(TRUE)
                 ELSE None
        l == to_ascii_lowercase(t)
        falsey_lowercase_strings ==
            IF trms.tag = "Default" THEN stock_falsey_lowercase_strings
            ELSE trms.falsey_lowercase_strings
        truey_lowercase_strings ==
            IF trms.tag = "Default" THEN stock_truey_lowercase_strings
            ELSE trms.truey_lowercase_strings
    IN  IF precise # None THEN precise
        ELSE IF contains(falsey_lowercase_strings, l) THEN Some(FALSE)
        ELSE IF contains(truey_lowercase_strings, l) THEN Some(TRUE)
        ELSE None

\* the stock terms with the falsey lowercase table given for the truey one
stock_term_strings_falsey_twice ==
    Strings(FALSEY_PRECISE_STRINGS, FALSEY_LOWERCASE_STRINGS,
            TRUEY_PRECISE_STRINGS, FALSEY_LOWERCASE_STRINGS)

stock_term_strings ==
    Strings(FALSEY_PRECISE_STRINGS, FALSEY_LOWERCASE_STRINGS,
            TRUEY_PRECISE_STRINGS, TRUEY_LOWERCASE_STRINGS)

string_is_falsey(str) ==
    string_is_truthy_against_(str, FALSEY_PRECISE_STRINGS, FALSEY_LOWERCASE_STRINGS)

\* string_is_truey with the falsey lowercase table passed for the truey one
string_is_truey_falsey_lowercase(str) ==
    string_is_truthy_against_(str, TRUEY_PRECISE_STRINGS, FALSEY_LOWERCASE_STRINGS)

string_is_truey(str) ==
    string_is_truthy_against_(str, TRUEY_PRECISE_STRINGS, TRUEY_LOWERCASE_STRINGS)

\* the classification with the truey tables passed for the falsey ones and
\* the falsey tables for the truey ones
string_is_truthy_tables_swapped(str) ==
    string_is_truthy_with_(str, Default,
                           TRUEY_PRECISE_STRINGS, TRUEY_LOWERCASE_STRINGS,
                           FALSEY_PRECISE_STRINGS, FALSEY_LOWERCASE_STRINGS)

string_is_truthy(str) ==
    string_is_truthy_with_(str, Default,
                           FALSEY_PRECISE_STRINGS, FALSEY_LOWERCASE_STRINGS,
                           TRUEY_PRECISE_STRINGS, TRUEY_LOWERCASE_STRINGS)

string_is_truthy_with(str, trms) ==
    string_is_truthy_with_(str, trms,
                           FALSEY_PRECISE_STRINGS, FALSEY_LOWERCASE_STRINGS,
                           TRUEY_PRECISE_STRINGS, TRUEY_LOWERCASE_STRINGS)

(***************************************************************************)
(* trait Truthy and its providers                                          *)
(***************************************************************************)
\* the providers of implement_Truthy_for_bool
BoolImplementors ==
    {"bool", "&bool", "Option<bool>", "&Option<bool>", "Option<&bool>", "&Option<&bool>"}

\* the providers for text: implement_Truthy_for_AsStr, _for_str, _for_String
TextImplementors == {"AsStr", "&str", "&&str", "String", "&String"}

Implementors == BoolImplementors \cup TextImplementors

\* providers that take an absent optional for false
is_truthy_absent_is_false(ty, v) ==
    CASE ty \in {"bool", "&bool"} -> Some(v)
      [] ty \in BoolImplementors \ {"bool", "&bool"} ->
            IF v = None THEN Some(FALSE) ELSE Some(v[1])
      [] ty \in TextImplementors -> string_is_truthy(v)

\* fn is_truthy(&self) of the provider for type ty, on the value v
is_truthy(ty, v) ==
    CASE ty \in {"bool", "&bool"} -> Some(v)
      [] ty \in {"Option<bool>", "&Option<bool>"} -> v
      [] ty \in {"Option<&bool>", "&Option<&bool>"} ->
            IF v = None THEN None ELSE Some(v[1])
      [] ty \in TextImplementors -> string_is_truthy(v)

\* the provided method Truthy::is_falsey
is_falsey(ty, v) == Some(FALSE) = is_truthy(ty, v)

\* is_truey as the negation of is_falsey
is_truey_not_falsey(ty, v) == Some(FALSE) # is_truthy(ty, v)

\* the provided method Truthy::is_truey
is_truey(ty, v) == Some(TRUE) = is_truthy(ty, v)

(***************************************************************************)
(* The inputs of the calls                                                 *)
(***************************************************************************)
\* the set of the elements of a sequence
Elems(seq) == {seq[i] : i \in 1..Len(seq)}

\* the other ASCII case of a letter, any other character itself
swap_case(c) ==
    IF CharCode(c) >= 65 /\ CharCode(c) <= 90
    THEN CharAt(PrintableHigh, CharCode(c) + 32 - 96)
    ELSE IF CharCode(c) >= 97 /\ CharCode(c) <= 122
    THEN CharAt(PrintableLow, CharCode(c) - 32 - 31)
    ELSE c

\* every string got from str by changing the case of a subset of its letters
RECURSIVE CaseVariants(_)
CaseVariants(str) ==
    IF Len(str) = 0 THEN {""}
    ELSE {c \o rest : c \in {CharAt(str, 1), swap_case(CharAt(str, 1))},
                      rest \in CaseVariants(SubSeq(str, 2, Len(str)))}

\* every string of at most n characters of the alphabet
RECURSIVE StringsUpTo(_, _)
StringsUpTo(alphabet, n) ==
    IF n = 0 THEN {""}
    ELSE LET shorter == StringsUpTo(alphabet, n - 1)
         IN  shorter \cup {x \o c : x \in shorter, c \in alphabet}

\* the characters of the exhaustively enumerated inputs: they spell
\* "no", "on" and "0" in every casing, with whitespace anywhere
SmallAlphabet == {" ", "\t", "n", "N", "o", "O", "0"}

\* the whitespace characters put around tokens
PadChars == {" ", "\t"}

WhitespaceChars == {"\t", "\n", "\f", "\r", " "}

Pads == StringsUpTo(PadChars, MaxPad)

SpacePads == StringsUpTo({" "}, MaxPad)

\* the terms of TEST_string_is_truthy_with_1
TEST_TRUEY_PRECISE_STRINGS == <<"Da", "YUP", "Yup">>
TEST_TRUEY_LOWERCASE_STRINGS == <<"da", "yup">>
TEST_FALSEY_PRECISE_STRINGS == <<"Nyet", "Nope">>
TEST_FALSEY_LOWERCASE_STRINGS == <<"nyet", "nope">>

TestTerms ==
    Strings(TEST_FALSEY_PRECISE_STRINGS, TEST_FALSEY_LOWERCASE_STRINGS,
            TEST_TRUEY_PRECISE_STRINGS, TEST_TRUEY_LOWERCASE_STRINGS)

\* precise sets that are not sorted, and no lowercase fallback
UnsortedPreciseTerms ==
    Strings(<<"Nyet", "Nope", "No">>, << >>, <<"Yup", "YUP", "Da">>, << >>)

\* the stock falsey tables with the caller's own truey tables
StockFalseyTerms ==
    Strings(FALSEY_PRECISE_STRINGS, FALSEY_LOWERCASE_STRINGS,
            TEST_TRUEY_PRECISE_STRINGS, TEST_TRUEY_LOWERCASE_STRINGS)

\* terms of both polarities: "Da" in both precise sets, "nope" in both
\* lowercase sets, "Yup" truey precise and "yup" falsey lowercase
ConflictingTerms ==
    Strings(<<"Da", "Nyet">>, <<"da", "nope", "yup">>,
            <<"Da", "Yup">>, <<"da", "nope">>)

CustomTerms == {TestTerms, UnsortedPreciseTerms, StockFalseyTerms, ConflictingTerms}

\* the tokens of the built-in lowercase tables and of the test's terms
LowercaseTokens ==
    Elems(FALSEY_LOWERCASE_STRINGS) \cup Elems(TRUEY_LOWERCASE_STRINGS)

CustomLowercaseTokens ==
    Elems(TEST_FALSEY_LOWERCASE_STRINGS) \cup Elems(TEST_TRUEY_LOWERCASE_STRINGS)

\* strings no table holds, as the tests use them
OtherTokens == {"", "maybe", "tru", "truee", "fa lse", "y", "00", "t rue"}

\* the casing variants of the built-in tokens
BuiltInTokens == UNION {CaseVariants(tok) : tok \in LowercaseTokens}

\* the casing variants of the tokens of the test's terms
CustomTokens == UNION {CaseVariants(tok) : tok \in CustomLowercaseTokens}

\* the arguments of the calls with the built-in tables
Inputs ==
    StringsUpTo(SmallAlphabet, MaxLen)
        \cup {lead \o tok \o trail :
                 lead \in Pads, tok \in BuiltInTokens \cup OtherTokens, trail \in Pads}
        \cup CustomTokens

\* the arguments of the calls with the caller's terms
CustomInputs ==
    {lead \o tok \o trail :
       lead \in SpacePads, tok \in BuiltInTokens \cup CustomTokens \cup OtherTokens,
       trail \in SpacePads}

\* the values the boolean providers of Truthy are called on
BoolReceivers ==
    [ty : {"bool", "&bool"}, val : BOOLEAN]
        \cup [ty : BoolImplementors \ {"bool", "&bool"},
              val : {None, Some(FALSE), Some(TRUE)}]

(***************************************************************************)
(* The state machine: a call site holds its arguments (s, terms, recv)     *)
(* and makes one classifying call, which records the operation, the        *)
(* provider it dispatched to and what it returned; a call site of          *)
(* string_is_truthy_with may take the stock terms first.  The functions    *)
(* are pure, so a call depends on nothing but its arguments.               *)
(***************************************************************************)
Init ==
    /\ \/ /\ s \in Inputs
          /\ terms = Default
          /\ recv = [ty |-> "text", val |-> s]
       \/ /\ s \in CustomInputs
          /\ terms \in CustomTerms
          /\ recv = [ty |-> "text", val |-> s]
       \/ /\ s = ""
          /\ terms = Default
          /\ recv \in BoolReceivers
    /\ op = "init"
    /\ impl = "-"
    /\ result = None

\* the call site has not classified yet
Ready == op = "init"

Call_string_is_falsey ==
    /\ Ready
    /\ op' = "string_is_falsey"
    /\ impl' = "-"
    /\ result' = string_is_falsey(s)
    /\ UNCHANGED <<s, terms, recv>>

Call_string_is_truey ==
    /\ Ready
    /\ op' = "string_is_truey"
    /\ impl' = "-"
    /\ result' = string_is_truey(s)
    /\ UNCHANGED <<s, terms, recv>>

Call_string_is_truthy ==
    /\ Ready
    /\ op' = "string_is_truthy"
    /\ impl' = "-"
    /\ result' = string_is_truthy(s)
    /\ UNCHANGED <<s, terms, recv>>

Call_string_is_truthy_with ==
    /\ Ready \/ op = "stock_term_strings"
    /\ op' = "string_is_truthy_with"
    /\ impl' = "-"
    /\ result' = string_is_truthy_with(s, terms)
    /\ UNCHANGED <<s, terms, recv>>

\* the caller takes the stock terms for its later calls
Call_stock_term_strings ==
    /\ Ready
    /\ op' = "stock_term_strings"
    /\ impl' = "-"
    /\ result' = stock_term_strings
    /\ terms' = stock_term_strings
    /\ UNCHANGED <<s, recv>>

\* the providers that a receiver dispatches to
Provides(ty, r) ==
    IF r.ty = "text" THEN ty \in TextImplementors ELSE ty = r.ty

Call_is_truthy ==
    \E ty \in Implementors :
        /\ Ready
        /\ Provides(ty, recv)
        /\ op' = "is_truthy"
        /\ impl' = ty
        /\ result' = is_truthy(ty, recv.val)
        /\ UNCHANGED <<s, terms, recv>>

Call_is_falsey ==
    \E ty \in Implementors :
        /\ Ready
        /\ Provides(ty, recv)
        /\ op' = "is_falsey"
        /\ impl' = ty
        /\ result' = is_falsey(ty, recv.val)
        /\ UNCHANGED <<s, terms, recv>>

Call_is_truey ==
    \E ty \in Implementors :
        /\ Ready
        /\ Provides(ty, recv)
        /\ op' = "is_truey"
        /\ impl' = ty
        /\ result' = is_truey(ty, recv.val)
        /\ UNCHANGED <<s, terms, recv>>

Next ==
    \/ Call_string_is_falsey
    \/ Call_string_is_truey
    \/ Call_string_is_truthy
    \/ Call_string_is_truthy_with
    \/ Call_stock_term_strings
    \/ Call_is_truthy
    \/ Call_is_falsey
    \/ Call_is_truey

Spec == Init /\ [][Next]_vars

(***************************************************************************)
(* Properties                                                              *)
(***************************************************************************)
\* the casing variants of every token of the built-in lowercase tables
VariantsOf == [tok \in LowercaseTokens |-> CaseVariants(tok)]

\* the casing variants of the tokens of the test's lowercase tables
CustomVariantsOf == [tok \in CustomLowercaseTokens |-> CaseVariants(tok)]

\* seq is in ascending order of str's Ord
IsSortedAscending(seq) ==
    \A i \in 1..(Len(seq) - 1) : str_cmp(seq[i], seq[i + 1]) # "Greater"

C2_WhitespaceInsensitive ==
    /\ op = "string_is_truthy" =>
        /\ \A c \in WhitespaceChars :
              string_is_truthy(c \o s) = result /\ string_is_truthy(s \o c) = result
        /\ \A c, d \in PadChars : string_is_truthy(c \o s \o d) = result
    /\ op = "string_is_falsey" =>
        /\ \A c \in WhitespaceChars :
              string_is_falsey(c \o s) = result /\ string_is_falsey(s \o c) = result
        /\ \A c, d \in PadChars : string_is_falsey(c \o s \o d) = result
    /\ op = "string_is_truey" =>
        /\ \A c \in WhitespaceChars :
              string_is_truey(c \o s) = result /\ string_is_truey(s \o c) = result
        /\ \A c, d \in PadChars : string_is_truey(c \o s \o d) = result
    /\ op = "string_is_truthy_with" =>
        /\ \A c \in WhitespaceChars :
              /\ string_is_truthy_with(c \o s, terms) = result
              /\ string_is_truthy_with(s \o c, terms) = result
        /\ \A c, d \in PadChars : string_is_truthy_with(c \o s \o d, terms) = result

C2_Witness ==
    /\ op = "string_is_truthy"
    /\ s = "\tYES "
    /\ result = Some(TRUE)

\* C3: a casing variant of a token of a built-in lowercase table is
\* classified as the token itself is, by string_is_truthy, string_is_falsey
\* and string_is_truey.
C3_CaseInsensitive ==
    \A tok \in LowercaseTokens :
        s \in VariantsOf[tok] =>
            /\ op = "string_is_truthy" => result = string_is_truthy(tok)
            /\ op = "string_is_falsey" => result = string_is_falsey(tok)
            /\ op = "string_is_truey" => result = string_is_truey(tok)

C3_Witness ==
    /\ op = "string_is_falsey"
    /\ s = "FaLSe"
    /\ result = TRUE

\* the trimmed argument is in neither built-in precise set and its
\* lowercased form in neither built-in lowercase set
Unclassified(str) ==
    /\ trim(str) \notin Elems(FALSEY_PRECISE_STRINGS) \cup Elems(TRUEY_PRECISE_STRINGS)
    /\ to_ascii_lowercase(trim(str)) \notin
           Elems(FALSEY_LOWERCASE_STRINGS) \cup Elems(TRUEY_LOWERCASE_STRINGS)

\* C4: for an argument that no built-in table holds, string_is_truthy is
\* None and string_is_falsey and string_is_truey are both false.
C4_UnclassifiedInput ==
    Unclassified(s) =>
        /\ op = "string_is_truthy" => result = None
        /\ op = "string_is_falsey" => result = FALSE
        /\ op = "string_is_truey" => result = FALSE

C4_Witness ==
    /\ op = "string_is_truey"
    /\ s \in {"", " ", "maybe"}
    /\ Unclassified(s)
    /\ result = FALSE
    /\ string_is_falsey(s) = FALSE

\* C5: with the caller's terms the result depends on the caller's four
\* sets only: it is the same whatever the stock tables are, it is None for
\* an argument that is in none of the four sets (trimmed in the precise
\* ones, trimmed and lowercased in the lowercase ones), and with the
\* test's terms the casing variants of the caller's tokens have the
\* caller's polarity.
C5_CustomTermsIsolation ==
    (op = "string_is_truthy_with" /\ terms.tag = "Strings") =>
        /\ result = string_is_truthy_with_(s, terms, << >>, << >>, << >>, << >>)
        /\ result = string_is_truthy_with_(s, terms,
                        TRUEY_PRECISE_STRINGS, TRUEY_LOWERCASE_STRINGS,
                        FALSEY_PRECISE_STRINGS, FALSEY_LOWERCASE_STRINGS)
        /\ ( /\ trim(s) \notin Elems(terms.falsey_precise_strings)
                                 \cup Elems(terms.truey_precise_strings)
             /\ to_ascii_lowercase(trim(s)) \notin Elems(terms.falsey_lowercase_strings)
                                 \cup Elems(terms.truey_lowercase_strings) )
           => result = None
        /\ terms = TestTerms =>
            /\ \A tok \in Elems(TEST_TRUEY_LOWERCASE_STRINGS) :
                   trim(s) \in CustomVariantsOf[tok] => result = Some(TRUE)
            /\ \A tok \in Elems(TEST_FALSEY_LOWERCASE_STRINGS) :
                   trim(s) \in CustomVariantsOf[tok] => result = Some(FALSE)

C5_Witness ==
    /\ op = "string_is_truthy_with"
    /\ terms = TestTerms
    /\ s = " FALSE"
    /\ result = None

\* C6: with the built-in tables no argument is both falsey and truey.
C6_NeverBothPolarities ==
    /\ (op = "string_is_falsey" /\ result = TRUE) => string_is_truey(s) = FALSE
    /\ (op = "string_is_truey" /\ result = TRUE) => string_is_falsey(s) = FALSE

C6_Witness ==
    /\ op = "string_is_falsey"
    /\ s = " oFF "
    /\ result = TRUE
    /\ string_is_truey(s) = FALSE

\* C7: for every provider of Truthy, is_falsey() is true exactly when
\* is_truthy() is Some(false) and is_truey() exactly when is_truthy() is
\* Some(true); so the two are never both true, and both are false exactly
\* when is_truthy() is None.
C7_DerivedFromTriState ==
    /\ op = "is_falsey" =>
        /\ result = (is_truthy(impl, recv.val) = Some(FALSE))
        /\ ~(result /\ is_truey(impl, recv.val))
        /\ (~result /\ ~is_truey(impl, recv.val)) <=> (is_truthy(impl, recv.val) = None)
    /\ op = "is_truey" =>
        /\ result = (is_truthy(impl, recv.val) = Some(TRUE))
        /\ ~(result /\ is_falsey(impl, recv.val))
        /\ (~result /\ ~is_falsey(impl, recv.val)) <=> (is_truthy(impl, recv.val) = None)

C7_Witness ==
    /\ op = "is_truey"
    /\ impl = "Option<bool>"
    /\ recv.val = None
    /\ result = FALSE
    /\ is_falsey(impl, recv.val) = FALSE

\* C8: the providers for booleans and optional booleans classify true as
\* Some(true), false as Some(false) and an absent optional as None,
\* whatever the terms of the call site.
C8_BoolProvidersIdentity ==
    /\ (op = "is_truthy" /\ impl \in {"bool", "&bool"}) =>
        /\ recv.val = TRUE => result = Some(TRUE)
        /\ recv.val = FALSE => result = Some(FALSE)
    /\ (op = "is_truthy" /\ impl \in BoolImplementors \ {"bool", "&bool"}) =>
        /\ recv.val = Some(TRUE) => result = Some(TRUE)
        /\ recv.val = Some(FALSE) => result = Some(FALSE)
        /\ recv.val = None => result = None

C8_Witness ==
    /\ op = "is_truthy"
    /\ impl = "&Option<&bool>"
    /\ recv.val = None
    /\ result = None

\* C9: stock_term_strings() returns Terms::Strings holding exactly the four
\* built-in tables, and string_is_truthy_with with those terms returns what
\* it returns with Terms::Default and what string_is_truthy returns.
C9_StockTermsAreTheBuiltIns ==
    /\ op = "stock_term_strings" =>
        /\ result.tag = "Strings"
        /\ result.falsey_precise_strings = FALSEY_PRECISE_STRINGS
        /\ result.falsey_lowercase_strings = FALSEY_LOWERCASE_STRINGS
        /\ result.truey_precise_strings = TRUEY_PRECISE_STRINGS
        /\ result.truey_lowercase_strings = TRUEY_LOWERCASE_STRINGS
        /\ terms = result
        /\ string_is_truthy_with(s, result) = string_is_truthy_with(s, Default)
        /\ string_is_truthy_with(s, result) = string_is_truthy(s)
    /\ ( /\ op = "string_is_truthy_with"
         /\ terms.tag = "Strings"
         /\ terms.falsey_precise_strings = FALSEY_PRECISE_STRINGS
         /\ terms.falsey_lowercase_strings = FALSEY_LOWERCASE_STRINGS
         /\ terms.truey_precise_strings = TRUEY_PRECISE_STRINGS
         /\ terms.truey_lowercase_strings = TRUEY_LOWERCASE_STRINGS )
       => /\ result = string_is_truthy_with(s, Default)
          /\ result = string_is_truthy(s)

C9_Witness ==
    /\ op = "string_is_truthy_with"
    /\ terms.tag = "Strings"
    /\ terms.truey_lowercase_strings = TRUEY_LOWERCASE_STRINGS
    /\ terms.falsey_precise_strings = FALSEY_PRECISE_STRINGS
    /\ s = "tRuE"
    /\ result = Some(TRUE)

\* C10 as the spec states it: with the caller's terms the precise sets are
\* looked up by binary search, so the call returns what the algorithm of
\* the built-in tables returns on the caller's four sets, a miss of the
\* binary search in a set that is not sorted included.
C10_CustomPreciseByBinarySearch ==
    (op = "string_is_truthy_with" /\ terms.tag = "Strings") =>
        result = string_is_truthy_with_(s, Default,
                     terms.falsey_precise_strings, terms.falsey_lowercase_strings,
                     terms.truey_precise_strings, terms.truey_lowercase_strings)

\* C10, amended: with the caller's terms the precise sets are scanned, not
\* binary-searched: when a precise set of the caller is not sorted
\* ascending, a trimmed argument that is in a precise set is still found
\* there, and the call returns its polarity (Some(false) when it is in the
\* falsey precise set, else Some(true)), never None.
C10_UnsortedCustomPreciseFound ==
    ( /\ op = "string_is_truthy_with"
      /\ terms.tag = "Strings"
      /\ \/ ~IsSortedAscending(terms.falsey_precise_strings)
         \/ ~IsSortedAscending(terms.truey_precise_strings)
      /\ trim(s) \in Elems(terms.falsey_precise_strings)
                         \cup Elems(terms.truey_precise_strings) )
    => /\ result # None
       /\ result = IF trim(s) \in Elems(terms.falsey_precise_strings)
                   THEN Some(FALSE) ELSE Some(TRUE)

C10_Witness ==
    /\ op = "string_is_truthy_with"
    /\ terms = UnsortedPreciseTerms
    /\ ~IsSortedAscending(terms.falsey_precise_strings)
    /\ s = "Nyet"
    /\ ~binary_search_is_ok(terms.falsey_precise_strings, s)
    /\ result = Some(FALSE)

\* the four sets a terms configuration selects
SetsOf(trms) ==
    IF trms.tag = "Default"
    THEN [fp |-> Elems(FALSEY_PRECISE_STRINGS), fl |-> Elems(FALSEY_LOWERCASE_STRINGS),
          tp |-> Elems(TRUEY_PRECISE_STRINGS), tl |-> Elems(TRUEY_LOWERCASE_STRINGS)]
    ELSE [fp |-> Elems(trms.falsey_precise_strings),
          fl |-> Elems(trms.falsey_lowercase_strings),
          tp |-> Elems(trms.truey_precise_strings),
          tl |-> Elems(trms.truey_lowercase_strings)]

\* C11: for every terms configuration string_is_truthy_with returns the
\* polarity of the first tier that holds the argument, in the order falsey
\* precise, truey precise (both on the trimmed argument), falsey lowercase,
\* truey lowercase (both on its lowercased form), and None when no tier
\* does; so an argument in both precise sets is Some(false), one whose
\* lowercased form is in both lowercase sets and that is in no precise set
\* is Some(false), and one in the truey precise set whose lowercased form
\* is in the falsey lowercase set is Some(true).
C11_FirstMatchingTier ==
    op = "string_is_truthy_with" =>
        LET sets == SetsOf(terms)
            t == trim(s)
            l == to_ascii_lowercase(trim(s))
        IN  /\ result = IF t \in sets.fp THEN Some(FALSE)
                        ELSE IF t \in sets.tp THEN Some(TRUE)
                        ELSE IF l \in sets.fl THEN Some(FALSE)
                        ELSE IF l \in sets.tl THEN Some(TRUE)
                        ELSE None
            /\ (t \in sets.fp /\ t \in sets.tp) => result = Some(FALSE)
            /\ (t \notin sets.fp \cup sets.tp /\ l \in sets.fl /\ l \in sets.tl)
                   => result = Some(FALSE)
            /\ (t \notin sets.fp /\ t \in sets.tp /\ l \in sets.fl) => result = Some(TRUE)

C11_Witness ==
    /\ op = "string_is_truthy_with"
    /\ terms = ConflictingTerms
    /\ s = "Da"
    /\ trim(s) \in Elems(terms.falsey_precise_strings)
    /\ trim(s) \in Elems(terms.truey_precise_strings)
    /\ result = Some(FALSE)

\* seq is in strictly ascending order of str's Ord
IsStrictlyAscending(seq) ==
    \A i \in 1..(Len(seq) - 1) : str_cmp(seq[i], seq[i + 1]) = "Less"

\* both built-in precise tables are strictly ascending
BuiltInPreciseAscending ==
    /\ IsStrictlyAscending(FALSEY_PRECISE_STRINGS)
    /\ IsStrictlyAscending(TRUEY_PRECISE_STRINGS)

\* C12: FALSEY_PRECISE_STRINGS and TRUEY_PRECISE_STRINGS are strictly
\* ascending in the byte-wise order of strings, and the binary search over
\* each finds the trimmed argument of every call on a string exactly when
\* it is an element of the table.
C12_BuiltInPreciseSorted ==
    /\ BuiltInPreciseAscending
    /\ op \in {"string_is_falsey", "string_is_truey", "string_is_truthy",
               "string_is_truthy_with"} =>
        /\ binary_search_is_ok(FALSEY_PRECISE_STRINGS, trim(s))
               <=> trim(s) \in Elems(FALSEY_PRECISE_STRINGS)
        /\ binary_search_is_ok(TRUEY_PRECISE_STRINGS, trim(s))
               <=> trim(s) \in Elems(TRUEY_PRECISE_STRINGS)

C12_Witness ==
    /\ op = "string_is_truey"
    /\ s = " On"
    /\ binary_search_is_ok(TRUEY_PRECISE_STRINGS, trim(s))
    /\ ~binary_search_is_ok(FALSEY_PRECISE_STRINGS, trim(s))
    /\ result = TRUE

Reverse(seq) == [i \in 1..Len(seq) |-> seq[Len(seq) + 1 - i]]

\* C14: with the caller's terms the lookup in the precise sets does not
\* depend on their order: a trimmed argument that is an element of
\* falsey_precise_strings gives Some(false), else one that is an element of
\* truey_precise_strings gives Some(true), sorted or not (the test's falsey
\* precise set, "Nyet" before "Nope", is not), and the result is the same
\* with both precise sets in the opposite order.
C14_CustomPreciseOrderIndependent ==
    (op = "string_is_truthy_with" /\ terms.tag = "Strings") =>
        /\ trim(s) \in Elems(terms.falsey_precise_strings) => result = Some(FALSE)
        /\ ( /\ trim(s) \notin Elems(terms.falsey_precise_strings)
             /\ trim(s) \in Elems(terms.truey_precise_strings) )
           => result = Some(TRUE)
        /\ result = string_is_truthy_with(s,
                        Strings(Reverse(terms.falsey_precise_strings),
                                terms.falsey_lowercase_strings,
                                Reverse(terms.truey_precise_strings),
                                terms.truey_lowercase_strings))

C14_Witness ==
    /\ op = "string_is_truthy_with"
    /\ terms = TestTerms
    /\ terms.falsey_precise_strings = <<"Nyet", "Nope">>
    /\ str_cmp("Nyet", "Nope") = "Greater"
    /\ s = " Nope "
    /\ result = Some(FALSE)

\* the lowercased form of every built-in precise token is in the lowercase
\* table of its polarity and not in that of the other polarity
PreciseFoldsIntoLowercase ==
    /\ \A tok \in Elems(FALSEY_PRECISE_STRINGS) :
           /\ to_ascii_lowercase(tok) \in Elems(FALSEY_LOWERCASE_STRINGS)
           /\ to_ascii_lowercase(tok) \notin Elems(TRUEY_LOWERCASE_STRINGS)
    /\ \A tok \in Elems(TRUEY_PRECISE_STRINGS) :
           /\ to_ascii_lowercase(tok) \in Elems(TRUEY_LOWERCASE_STRINGS)
           /\ to_ascii_lowercase(tok) \notin Elems(FALSEY_LOWERCASE_STRINGS)

\* the lowercase tier alone, on the trimmed and lowercased argument
LowercaseTierAlone(str) ==
    LET l == to_ascii_lowercase(trim(str))
    IN  IF l \in Elems(FALSEY_LOWERCASE_STRINGS) THEN Some(FALSE)
        ELSE IF l \in Elems(TRUEY_LOWERCASE_STRINGS) THEN Some(TRUE)
        ELSE None

\* C15: on the built-in tables the precise tier changes no result: every
\* precise token lowercases into the lowercase table of its own polarity
\* only, and string_is_truthy, string_is_falsey and string_is_truey return
\* what the lowercase tier alone gives for the trimmed, lowercased
\* argument.
C15_PreciseTierRedundant ==
    /\ PreciseFoldsIntoLowercase
    /\ op = "string_is_truthy" => result = LowercaseTierAlone(s)
    /\ op = "string_is_falsey" => result = (LowercaseTierAlone(s) = Some(FALSE))
    /\ op = "string_is_truey" => result = (LowercaseTierAlone(s) = Some(TRUE))

C15_Witness ==
    /\ op = "string_is_truthy"
    /\ s = "OFF"
    /\ binary_search_is_ok(FALSEY_PRECISE_STRINGS, trim(s))
    /\ LowercaseTierAlone(s) = Some(FALSE)
    /\ result = Some(FALSE)

====
